---------------------------- MODULE Spec2Model ----------------------------
(***************************************************************************)
(* A model of the ej JSON library.                                         *)
(*                                                                         *)
(*   - src/src/parser.rs: the single-pass, byte-indexed recursive-descent  *)
(*     parser (parse_str / Parser::parse).  The recursion is unfolded into *)
(*     a machine with an explicit stack of open containers: one action per *)
(*     function body, or per segment of a function body between two calls *)
(*     of parse_bytes.                                                     *)
(*   - src/src/lex.rs and src/src/lib.rs: the tokenizer and the parser     *)
(*     over the token queue (from_json_str).                               *)
(*                                                                         *)
(* Bytes are one-character strings, positions are 0-based byte offsets as  *)
(* in the source, and a Location is the pair <<start, end>> of a half-open *)
(* span.                                                                   *)
(***************************************************************************)
EXTENDS Integers, Sequences, FiniteSets, TLC

---------------------------------------------------------------------------
(* Program constants (parser.rs 4-9).                                      *)

JSON_QUOTE == "\""

JSON_NUMBER_CHARS == {"0", "1", "2", "3", "4", "5", "6", "7", "8", "9", "-", "e", "."}

JSON_WHITESPACE_CHARS == {" ", "\n", "\r", "\t"}

LEN_TRUE == 4

LEN_FALSE == 5

LEN_NULL == 4

Digits == {"0", "1", "2", "3", "4", "5", "6", "7", "8", "9"}

---------------------------------------------------------------------------
(* Bounds of the model and the inputs it is run on.                        *)

\* Longest input of the byte family (every byte string over StructBytes).
MaxStructLen == 4

\* Longest input of the number family (every byte string over NumBytes).
MaxNumLen == 4

\* Most chunks in an input of the literal family.
MaxLitChunks == 3

\* Most chunks after the opening brace in an input of the object family.
MaxObjChunks == 5

RECURSIVE Flatten(_)
Flatten(ss) == IF ss = <<>> THEN <<>> ELSE Head(ss) \o Flatten(Tail(ss))

SeqsUpTo(S, n) == UNION {[1..k -> S] : k \in 0..n}

StructBytes == {"[", "]", "{", "}", ",", ":", " ", "\"", "1"}

NumBytes == {"1", "0", "-", "e", ".", "E", "+"}

LitChunks ==
    { <<"n", "u", "l", "l">>, <<"t", "r", "u", "e">>, <<"f", "a", "l", "s", "e">>,
      <<"n">>, <<"n", "u">>, <<"t", "r", "u">>, <<"f", "a", "l", "s">>,
      <<"t", "r", "u", "x">>, <<"[">>, <<"]">>, <<",">>, <<" ">> }

ObjChunks ==
    { <<"}">>, <<",">>, <<" ">>,
      <<"\"", "a", "\"", ":", "1">>,     \* a pair  "a":1
      <<"\"", "b", "\"", ":", "[", "]">>, \* a pair  "b":[]
      <<"\"", ":", "1">>,                \* a pair without its key's text and opening quote
      <<"\"", "a", "\"">> }              \* a key alone

\* Most chunks after the opening bracket in an input of the array family.
MaxArrChunks == 4

ArrChunks ==
    { <<"]">>, <<",">>, <<" ">>, <<"1">>, <<"\"", "a", "\"">>, <<"[">>, <<"x">> }

\* The ends of the i64 range, and one past each end.
I64Edges ==
    LET max == <<"9","2","2","3","3","7","2","0","3","6","8","5","4","7","7","5","8","0","7">>
        over == <<"9","2","2","3","3","7","2","0","3","6","8","5","4","7","7","5","8","0","8">>
        more == <<"9","2","2","3","3","7","2","0","3","6","8","5","4","7","7","5","8","0","9">>
    IN  { max, over, <<"-">> \o over, <<"-">> \o more, <<"0", "0">> \o over }

Inputs ==
    SeqsUpTo(StructBytes, MaxStructLen)
      \cup SeqsUpTo(NumBytes, MaxNumLen)
      \cup { Flatten(w) : w \in SeqsUpTo(LitChunks, MaxLitChunks) }
      \cup { <<"{">> \o Flatten(w) : w \in SeqsUpTo(ObjChunks, MaxObjChunks) }
      \cup { <<"[">> \o Flatten(w) : w \in SeqsUpTo(ArrChunks, MaxArrChunks) }
      \cup I64Edges

---------------------------------------------------------------------------
(* State.                                                                  *)

VARIABLES
    bytes,    \* Parser.bytes: the input buffer
    pos,      \* Parser.pos: the cursor
    values,   \* Parser.values: the completed top-level nodes
    stack,    \* the open parse_array / parse_object calls, outermost first
    pc,       \* the function (or segment of one) the parser is about to run
    result,   \* what parse_str has returned, once it has
    chars,    \* lex: the characters not yet consumed (a VecDeque<char>)
    tokens,   \* lex: the tokens emitted so far
    lpc,      \* from_json_str: the call it is about to make
    lresult   \* what from_json_str has returned, once it has

pvars == <<bytes, pos, values, stack, pc, result>>

lvars == <<chars, tokens, lpc, lresult>>

vars == <<bytes, pos, values, stack, pc, result, chars, tokens, lpc, lresult>>

Byte(i) == bytes[i + 1]

\* self.bytes[a..b]
Slice(a, b) == SubSeq(bytes, a + 1, b)

Location(s, e) == <<s, e>>

\* ParseError { position, kind }
Syntax(p) == [kind |-> "Syntax", position |-> p]

Number(p) == [kind |-> "Number", position |-> p]

\* Value = Annotation<ValueKind>
Annotation(kind, value, loc) == [kind |-> kind, value |-> value, loc |-> loc]

\* The outcome of one parsing function: Ok(value) with the cursor it leaves,
\* Err(err) with the cursor it leaves, or a panic.
Ok(v, p) == [tag |-> "Ok", pos |-> p, value |-> v]

Err(e, p) == [tag |-> "Err", pos |-> p, err |-> e]

Panic(p) == [tag |-> "Panic", pos |-> p]

\* x as char, for each byte of a slice.  Every byte of Inputs is ASCII, where
\* the conversion keeps the code point.
AsChars(slice) == slice

---------------------------------------------------------------------------
(* skip_whitespace (parser.rs 317-327).                                    *)

RECURSIVE SkipFrom(_)
SkipFrom(p) ==
    IF p < Len(bytes)
    THEN IF Byte(p) \in JSON_WHITESPACE_CHARS THEN SkipFrom(p + 1) ELSE p
    ELSE p

\* skip_whitespace reporting the offset the skip started at.
skip_whitespace_reports_start(p) ==
    LET q == SkipFrom(p)
    IN  IF q < Len(bytes) THEN Ok(<<>>, q) ELSE Err(Syntax(p), q)

skip_whitespace(p) ==
    LET q == SkipFrom(p)
    IN  IF q < Len(bytes) THEN Ok(<<>>, q) ELSE Err(Syntax(q), q)

---------------------------------------------------------------------------
(* str::parse::<i64>() and str::parse::<f64>() on the scanned slice.       *)

DigitVal(c) ==
    CASE c = "0" -> 0 [] c = "1" -> 1 [] c = "2" -> 2 [] c = "3" -> 3 [] c = "4" -> 4
      [] c = "5" -> 5 [] c = "6" -> 6 [] c = "7" -> 7 [] c = "8" -> 8 [] c = "9" -> 9

AllDigits(s) == \A i \in 1..Len(s) : s[i] \in Digits

RECURSIVE StripZeros(_)
StripZeros(s) ==
    IF Len(s) > 1 /\ Head(s) = "0" THEN StripZeros(Tail(s)) ELSE s

\* a <= b for two digit strings without leading zeros
RECURSIVE DigitsLE(_, _)
DigitsLE(a, b) ==
    IF Len(a) # Len(b) THEN Len(a) < Len(b)
    ELSE IF a = <<>> THEN TRUE
    ELSE IF DigitVal(Head(a)) # DigitVal(Head(b)) THEN DigitVal(Head(a)) < DigitVal(Head(b))
    ELSE DigitsLE(Tail(a), Tail(b))

I64MaxDigits == <<"9","2","2","3","3","7","2","0","3","6","8","5","4","7","7","5","8","0","7">>

I64MinDigits == <<"9","2","2","3","3","7","2","0","3","6","8","5","4","7","7","5","8","0","8">>

\* i64::from_str: an optional sign, then one or more digits, the value within
\* the 64-bit signed range.  The value is kept as its sign and its digits
\* without leading zeros.
ParseI64(s) ==
    LET signed == s # <<>> /\ Head(s) \in {"-", "+"}
        neg    == s # <<>> /\ Head(s) = "-"
        ds     == IF signed THEN Tail(s) ELSE s
        mag    == StripZeros(ds)
    IN  IF ds = <<>> \/ ~AllDigits(ds) THEN [ok |-> FALSE]
        ELSE IF ~DigitsLE(mag, IF neg THEN I64MinDigits ELSE I64MaxDigits) THEN [ok |-> FALSE]
        ELSE [ok |-> TRUE, neg |-> neg /\ mag # <<"0">>, digits |-> mag]

\* The length of the run of digits of s that starts at index i (1-based).
RECURSIVE DigitRun(_, _)
DigitRun(s, i) ==
    IF i <= Len(s) /\ s[i] \in Digits THEN 1 + DigitRun(s, i + 1) ELSE 0

\* f64::from_str on a string without letters other than e and E:
\*   Sign? ( Digit+ | Digit+ '.' Digit* | Digit* '.' Digit+ ) ( [eE] Sign? Digit+ )?
\* A value out of the f64 range rounds to an infinity or to zero: no error.
\* The value is kept as the text it was read from.
ParseF64(s) ==
    LET i0   == IF s # <<>> /\ s[1] \in {"-", "+"} THEN 2 ELSE 1
        n1   == DigitRun(s, i0)
        i1   == i0 + n1
        dot  == i1 <= Len(s) /\ s[i1] = "."
        n2   == IF dot THEN DigitRun(s, i1 + 1) ELSE 0
        i2   == IF dot THEN i1 + 1 + n2 ELSE i1
        exp  == i2 <= Len(s) /\ s[i2] \in {"e", "E"}
        i3   == IF exp /\ i2 + 1 <= Len(s) /\ s[i2 + 1] \in {"-", "+"} THEN i2 + 2 ELSE i2 + 1
        n3   == IF exp THEN DigitRun(s, i3) ELSE 0
        iEnd == IF exp THEN i3 + n3 ELSE i2
    IN  IF n1 + n2 = 0 THEN [ok |-> FALSE]
        ELSE IF exp /\ n3 = 0 THEN [ok |-> FALSE]
        ELSE IF iEnd # Len(s) + 1 THEN [ok |-> FALSE]
        ELSE [ok |-> TRUE, text |-> s]

---------------------------------------------------------------------------
(* The scalar productions, each as a function of the cursor it starts at.  *)

\* parse_null (parser.rs 156-163).  The slice bytes[i..i + LEN_NULL] panics
\* when it ends past the buffer.
parse_null(i) ==
    IF i + LEN_NULL > Len(bytes) THEN Panic(i)
    ELSE IF Slice(i, i + LEN_NULL) = <<"n", "u", "l", "l">>
         THEN Ok(Annotation("Null", <<>>, Location(i, i + LEN_NULL)), i + LEN_NULL)
         ELSE Err(Syntax(i), i)

\* parse_bool (parser.rs 165-175).  Both slices panic when they end past the
\* buffer; the second is taken only when the first did not match.
parse_bool(i) ==
    IF i + LEN_TRUE > Len(bytes) THEN Panic(i)
    ELSE IF Slice(i, i + LEN_TRUE) = <<"t", "r", "u", "e">>
         THEN Ok(Annotation("Bool", TRUE, Location(i, i + LEN_TRUE)), i + LEN_TRUE)
    ELSE IF i + LEN_FALSE > Len(bytes) THEN Panic(i)
    ELSE IF Slice(i, i + LEN_FALSE) = <<"f", "a", "l", "s", "e">>
         THEN Ok(Annotation("Bool", FALSE, Location(i, i + LEN_FALSE)), i + LEN_FALSE)
         ELSE Err(Syntax(i), i)

match_number_token(c) == c \in JSON_NUMBER_CHARS

\* The scan of parse_number (parser.rs 178-183): the end of the run.
RECURSIVE NumberRun(_)
NumberRun(p) ==
    IF p < Len(bytes) /\ match_number_token(Byte(p)) THEN NumberRun(p + 1) ELSE p

\* parse_number failing with the Syntax kind.
parse_number_syntax_kind(i) ==
    LET e         == NumberRun(i)
        num_slice == AsChars(Slice(i, e))
        loc       == Location(i, e)
        int       == ParseI64(num_slice)
        float     == ParseF64(num_slice)
    IN  IF int.ok
        THEN Ok(Annotation("Number",
                           [num |-> "Integer", neg |-> int.neg, digits |-> int.digits],
                           loc), e)
        ELSE IF float.ok
        THEN Ok(Annotation("Number", [num |-> "Float", text |-> float.text], loc), e)
        ELSE Err(Syntax(i), i)

\* parse_number that builds its node and leaves the cursor where it was.
parse_number_keeps_cursor(i) ==
    LET e         == NumberRun(i)
        num_slice == AsChars(Slice(i, e))
        loc       == Location(i, e)
        int       == ParseI64(num_slice)
        float     == ParseF64(num_slice)
    IN  IF int.ok
        THEN Ok(Annotation("Number",
                           [num |-> "Integer", neg |-> int.neg, digits |-> int.digits],
                           loc), i)
        ELSE IF float.ok
        THEN Ok(Annotation("Number", [num |-> "Float", text |-> float.text], loc), i)
        ELSE Err(Number(i), i)

\* parse_number (parser.rs 177-199).
parse_number(i) ==
    LET e         == NumberRun(i)
        num_slice == AsChars(Slice(i, e))
        loc       == Location(i, e)
        int       == ParseI64(num_slice)
        float     == ParseF64(num_slice)
    IN  IF int.ok
        THEN Ok(Annotation("Number",
                           [num |-> "Integer", neg |-> int.neg, digits |-> int.digits],
                           loc), e)
        ELSE IF float.ok
        THEN Ok(Annotation("Number", [num |-> "Float", text |-> float.text], loc), e)
        ELSE Err(Number(i), i)

\* The scan of parse_string (parser.rs 206-214): the offset of the first
\* quote at or after p, or the length of the buffer.
RECURSIVE QuoteFrom(_)
QuoteFrom(p) ==
    IF p < Len(bytes)
    THEN IF Byte(p) = JSON_QUOTE THEN p ELSE QuoteFrom(p + 1)
    ELSE p

\* parse_string with a span that stops at the closing quote, not after it.
parse_string_span_stops_at_quote(i) ==
    LET start_pos == i
        p         == i + 1
        q         == QuoteFrom(p)
        closed    == q < Len(bytes)
    IN  IF ~closed THEN Err(Syntax(p), p)
        ELSE Ok(Annotation("String", AsChars(Slice(p, q)), Location(start_pos, q)), q + 1)

\* parse_string (parser.rs 201-227).  The byte at i is skipped unread.
parse_string(i) ==
    LET start_pos == i
        p         == i + 1
        q         == QuoteFrom(p)
        closed    == q < Len(bytes)
    IN  IF ~closed THEN Err(Syntax(p), p)
        ELSE Ok(Annotation("String", AsChars(Slice(p, q)), Location(start_pos, q + 1)), q + 1)

---------------------------------------------------------------------------
(* The machine.                                                            *)

Running == [tag |-> "Running"]

\* Json(self.values)
Json(vs) == [tag |-> "Ok", json |-> vs]

\* HashMap::new and HashMap::insert
EmptyMap == [k \in {} |-> <<>>]

\* An insert that keeps the value a key already has.
Insert_keeps_first(hm, key, val) ==
    [k \in (DOMAIN hm) \cup {key} |-> IF k \in DOMAIN hm THEN hm[k] ELSE val]

Insert(hm, key, val) ==
    [k \in (DOMAIN hm) \cup {key} |-> IF k = key THEN val ELSE hm[k]]

Frame(kind, start) ==
    [kind |-> kind, start_pos |-> start, array |-> <<>>, hm |-> EmptyMap, key |-> <<>>]

Top == stack[Len(stack)]

Pop == SubSeq(stack, 1, Len(stack) - 1)

\* A loop of parse that breaks on a failed parse_bytes, as it does on a failed
\* skip_whitespace, and returns what it has.
Abort_breaks_loop(r) ==
    /\ result' = IF r.tag = "Err" THEN [tag |-> "Ok", json |-> values] ELSE [tag |-> "Panic"]
    /\ pos' = r.pos
    /\ pc' = "done"
    /\ UNCHANGED <<bytes, values, stack>>

\* The ? operator on a failed call: the error goes up through every open
\* call and out of parse unchanged.  A panic unwinds the same way.  The
\* parser is dropped with its fields as they are.
Abort(r) ==
    /\ result' = IF r.tag = "Err" THEN [tag |-> "Err", err |-> r.err] ELSE [tag |-> "Panic"]
    /\ pos' = r.pos
    /\ pc' = "done"
    /\ UNCHANGED <<bytes, values, stack>>

\* A value returned by parse_bytes to its caller, with the stack stk of calls
\* still open: parse pushes it on values (133-134), parse_array on its array
\* (243-244), parse_object inserts it under the pending key (291-293).
Return(v, p, stk) ==
    /\ pos' = p
    /\ IF stk = <<>>
       THEN /\ values' = Append(values, v)
            /\ stack' = stk
            /\ pc' = "parse"
       ELSE LET n == Len(stk)
            IN  /\ values' = values
                /\ IF stk[n].kind = "array"
                   THEN /\ stack' = [stk EXCEPT ![n].array = Append(@, v)]
                        /\ pc' = "parse_array_loop"
                   ELSE /\ stack' = [stk EXCEPT ![n].hm = Insert(@, stk[n].key, v)]
                        /\ pc' = "parse_object_loop"
    /\ UNCHANGED <<bytes, result>>

\* A scalar production run at the cursor.
Scalar(r) ==
    IF r.tag = "Ok" THEN Return(r.value, r.pos, stack) ELSE Abort(r)

Init ==
    /\ bytes \in Inputs
    /\ pos = 0
    /\ values = <<>>
    /\ stack = <<>>
    /\ pc = "parse"
    /\ result = Running
    /\ chars = <<>>
    /\ tokens = <<>>
    /\ lpc = "idle"
    /\ lresult = Running

\* One turn of the loop of Parser::parse (parser.rs 127-138), up to the call
\* of parse_bytes.
Parse ==
    /\ pc = "parse"
    /\ IF pos < Len(bytes)
       THEN LET sw == skip_whitespace(pos)
            IN  IF sw.tag = "Err"
                THEN /\ pos' = sw.pos
                     /\ result' = Json(values)
                     /\ pc' = "done"
                     /\ UNCHANGED <<bytes, values, stack>>
                ELSE /\ pos' = sw.pos
                     /\ pc' = "parse_bytes"
                     /\ UNCHANGED <<bytes, values, stack, result>>
       ELSE /\ result' = Json(values)
            /\ pc' = "done"
            /\ UNCHANGED <<bytes, pos, values, stack>>
    /\ UNCHANGED lvars

\* The callee parse_bytes dispatches to on byte c (parser.rs 143-151).
Dispatch(c) ==
    CASE c = "{" -> "parse_object"
      [] c = "[" -> "parse_array"
      [] c = JSON_QUOTE -> "parse_string"
      [] c = "-" \/ c \in Digits -> "parse_number"
      [] c = "t" \/ c = "f" -> "parse_bool"
      [] c = "n" -> "parse_null"
      [] OTHER -> "none"

\* parse_bytes (parser.rs 140-154), up to the call it dispatches to.
ParseBytes ==
    /\ pc = "parse_bytes"
    /\ LET sw == skip_whitespace(pos)
       IN  IF sw.tag = "Err" THEN Abort(sw)
           ELSE IF Dispatch(Byte(sw.pos)) = "none" THEN Abort(Err(Syntax(sw.pos), sw.pos))
           ELSE /\ pos' = sw.pos
                /\ pc' = Dispatch(Byte(sw.pos))
                /\ UNCHANGED <<bytes, values, stack, result>>
    /\ UNCHANGED lvars

ParseNull == pc = "parse_null" /\ Scalar(parse_null(pos)) /\ UNCHANGED lvars

ParseBool == pc = "parse_bool" /\ Scalar(parse_bool(pos)) /\ UNCHANGED lvars

ParseNumber == pc = "parse_number" /\ Scalar(parse_number(pos)) /\ UNCHANGED lvars

ParseString == pc = "parse_string" /\ Scalar(parse_string(pos)) /\ UNCHANGED lvars

\* parse_array up to its loop (parser.rs 229-240).
ParseArray ==
    /\ pc = "parse_array"
    /\ LET start_pos == pos
           sw        == skip_whitespace(pos + 1)
       IN  IF sw.tag = "Err" THEN Abort(sw)
           ELSE IF Byte(sw.pos) = "]"
           THEN Return(Annotation("Array", <<>>, Location(start_pos, sw.pos + 1)),
                       sw.pos + 1, stack)
           ELSE /\ pos' = sw.pos
                /\ stack' = Append(stack, Frame("array", start_pos))
                /\ pc' = "parse_bytes"
                /\ UNCHANGED <<bytes, values, result>>
    /\ UNCHANGED lvars

\* A loop of parse_array that, after a comma, takes a closing bracket as the
\* end of the array (as parse_array of lib.rs does).
ParseArrayLoop_accepts_trailing_comma ==
    /\ pc = "parse_array_loop"
    /\ LET sw == skip_whitespace(pos)
       IN  IF sw.tag = "Err" THEN Abort(sw)
           ELSE IF Byte(sw.pos) = "]"
           THEN Return(Annotation("Array", Top.array, Location(Top.start_pos, sw.pos + 1)),
                       sw.pos + 1, Pop)
           ELSE IF Byte(sw.pos) = ","
           THEN LET sw2 == skip_whitespace(sw.pos + 1)
                IN  IF sw2.tag = "Err" THEN Abort(sw2)
                    ELSE IF Byte(sw2.pos) = "]"
                    THEN Return(Annotation("Array", Top.array,
                                           Location(Top.start_pos, sw2.pos + 1)),
                                sw2.pos + 1, Pop)
                    ELSE /\ pos' = sw2.pos
                         /\ pc' = "parse_bytes"
                         /\ UNCHANGED <<bytes, values, stack, result>>
           ELSE Abort(Err(Syntax(sw.pos), sw.pos))
    /\ UNCHANGED lvars

\* The loop of parse_array after the push of a value (parser.rs 246-261).
ParseArrayLoop ==
    /\ pc = "parse_array_loop"
    /\ LET sw == skip_whitespace(pos)
       IN  IF sw.tag = "Err" THEN Abort(sw)
           ELSE IF Byte(sw.pos) = "]"
           THEN Return(Annotation("Array", Top.array, Location(Top.start_pos, sw.pos + 1)),
                       sw.pos + 1, Pop)
           ELSE IF Byte(sw.pos) = ","
           THEN LET sw2 == skip_whitespace(sw.pos + 1)
                IN  IF sw2.tag = "Err" THEN Abort(sw2)
                    ELSE /\ pos' = sw2.pos
                         /\ pc' = "parse_bytes"
                         /\ UNCHANGED <<bytes, values, stack, result>>
           ELSE Abort(Err(Syntax(sw.pos), sw.pos))
    /\ UNCHANGED lvars

\* parse_object up to its loop (parser.rs 264-275).
ParseObject ==
    /\ pc = "parse_object"
    /\ LET start_pos == pos
           sw        == skip_whitespace(pos + 1)
       IN  IF sw.tag = "Err" THEN Abort(sw)
           ELSE IF Byte(sw.pos) = "}"
           THEN Return(Annotation("Object", EmptyMap, Location(start_pos, sw.pos + 1)),
                       sw.pos + 1, stack)
           ELSE /\ pos' = sw.pos
                /\ stack' = Append(stack, Frame("object", start_pos))
                /\ pc' = "parse_object_key"
                /\ UNCHANGED <<bytes, values, result>>
    /\ UNCHANGED lvars

\* The key and the colon of one pair (parser.rs 278-289): parse_string at the
\* cursor, whatever byte is there.
ParseObjectKey ==
    /\ pc = "parse_object_key"
    /\ LET k == parse_string(pos)
       IN  IF k.tag # "Ok" THEN Abort(k)
           ELSE IF k.value.kind # "String" THEN Abort(Err(Syntax(k.pos), k.pos))
           ELSE LET sw == skip_whitespace(k.pos)
                IN  IF sw.tag = "Err" THEN Abort(sw)
                    ELSE IF Byte(sw.pos) # ":" THEN Abort(Err(Syntax(sw.pos), sw.pos))
                    ELSE LET sw2 == skip_whitespace(sw.pos + 1)
                         IN  IF sw2.tag = "Err" THEN Abort(sw2)
                             ELSE /\ pos' = sw2.pos
                                  /\ stack' = [stack EXCEPT ![Len(stack)].key = k.value.value]
                                  /\ pc' = "parse_bytes"
                                  /\ UNCHANGED <<bytes, values, result>>
    /\ UNCHANGED lvars

\* The loop of parse_object after the insert of a pair (parser.rs 295-310).
ParseObjectLoop ==
    /\ pc = "parse_object_loop"
    /\ LET sw == skip_whitespace(pos)
       IN  IF sw.tag = "Err" THEN Abort(sw)
           ELSE IF Byte(sw.pos) = "}"
           THEN Return(Annotation("Object", Top.hm, Location(Top.start_pos, sw.pos + 1)),
                       sw.pos + 1, Pop)
           ELSE IF Byte(sw.pos) = ","
           THEN LET sw2 == skip_whitespace(sw.pos + 1)
                IN  IF sw2.tag = "Err" THEN Abort(sw2)
                    ELSE /\ pos' = sw2.pos
                         /\ pc' = "parse_object_key"
                         /\ UNCHANGED <<bytes, values, stack, result>>
           ELSE Abort(Err(Syntax(sw.pos), sw.pos))
    /\ UNCHANGED lvars

Next ==
    \/ Parse
    \/ ParseBytes
    \/ ParseNull
    \/ ParseBool
    \/ ParseNumber
    \/ ParseString
    \/ ParseArray
    \/ ParseArrayLoop
    \/ ParseObject
    \/ ParseObjectKey
    \/ ParseObjectLoop

Spec == Init /\ [][Next]_vars

\* parse_str runs to its return on one thread with nothing to wait for: a
\* step that can be taken is taken.
SpecFair == Init /\ [][Next]_vars /\ WF_vars(Next)

---------------------------------------------------------------------------
(* The tokenizer (lex.rs) and the parser over the token queue (lib.rs).    *)

Token(type) == [type |-> type]

TokenOf(type, v) == [type |-> type, v |-> v]

\* The outcome of one lex_* function: Ok(Some(token)), Ok(None) or Err, with
\* the characters it leaves.
Some(t, rest) == [tag |-> "Some", token |-> t, rest |-> rest]

None(rest) == [tag |-> "None", rest |-> rest]

LexErr == [tag |-> "Err"]

\* The scan of lex_string (lex.rs 84-93) over cs: the index of the first
\* quote, or 0.
FirstQuote(cs) ==
    IF \E i \in 1..Len(cs) : cs[i] = JSON_QUOTE
    THEN CHOOSE i \in 1..Len(cs) : cs[i] = JSON_QUOTE /\ \A j \in 1..(i - 1) : cs[j] # JSON_QUOTE
    ELSE 0

\* lex_string (lex.rs 76-94).
lex_string(cs) ==
    IF cs = <<>> \/ Head(cs) # JSON_QUOTE THEN None(cs)
    ELSE LET q == FirstQuote(Tail(cs))
         IN  IF q = 0 THEN LexErr
             ELSE Some(TokenOf("String", SubSeq(Tail(cs), 1, q - 1)),
                       SubSeq(Tail(cs), q + 1, Len(Tail(cs))))

\* The scan of lex_number (lex.rs 99-107): how many leading characters of cs
\* are number characters.
RECURSIVE NumPrefix(_)
NumPrefix(cs) ==
    IF cs # <<>> /\ Head(cs) \in JSON_NUMBER_CHARS THEN 1 + NumPrefix(Tail(cs)) ELSE 0

\* lex_number (lex.rs 96-120).
lex_number(cs) ==
    LET n     == NumPrefix(cs)
        str   == SubSeq(cs, 1, n)
        rest  == SubSeq(cs, n + 1, Len(cs))
        int   == ParseI64(str)
        float == ParseF64(str)
    IN  IF n = 0 THEN None(cs)
        ELSE IF int.ok
        THEN Some(TokenOf("Integer", [neg |-> int.neg, digits |-> int.digits]), rest)
        ELSE IF float.ok THEN Some(TokenOf("Float", float.text), rest)
        ELSE LexErr

\* lex_bool (lex.rs 122-147).
lex_bool(cs) ==
    IF Len(cs) > LEN_TRUE /\ SubSeq(cs, 1, LEN_TRUE) = <<"t", "r", "u", "e">>
    THEN Some(TokenOf("Bool", TRUE), SubSeq(cs, LEN_TRUE + 1, Len(cs)))
    ELSE IF Len(cs) > LEN_FALSE /\ SubSeq(cs, 1, LEN_FALSE) = <<"f", "a", "l", "s", "e">>
    THEN Some(TokenOf("Bool", FALSE), SubSeq(cs, LEN_FALSE + 1, Len(cs)))
    ELSE None(cs)

\* lex_null (lex.rs 149-163).
lex_null(cs) ==
    IF Len(cs) > LEN_NULL /\ SubSeq(cs, 1, LEN_NULL) = <<"n", "u", "l", "l">>
    THEN Some(Token("Null"), SubSeq(cs, LEN_NULL + 1, Len(cs)))
    ELSE None(cs)

\* The single-character tokens (lex.rs 56-67); whitespace gives no token.
lex_char(cs) ==
    LET c == Head(cs)
    IN  CASE c \in {" ", "\t", "\n", "\r"} -> None(Tail(cs))
          [] c = "," -> Some(Token("Comma"), Tail(cs))
          [] c = ":" -> Some(Token("Colon"), Tail(cs))
          [] c = "[" -> Some(Token("LeftBracket"), Tail(cs))
          [] c = "]" -> Some(Token("RightBracket"), Tail(cs))
          [] c = "{" -> Some(Token("LeftBrace"), Tail(cs))
          [] c = "}" -> Some(Token("RightBrace"), Tail(cs))
          [] OTHER -> LexErr

\* One turn of the loop of lex (lex.rs 29-71): the first of lex_string,
\* lex_number, lex_bool, lex_null that gives a token or fails, else the
\* single-character tokens.
lex_step(cs) ==
    LET s == lex_string(cs)
        n == lex_number(cs)
        b == lex_bool(cs)
        z == lex_null(cs)
    IN  IF s.tag # "None" THEN s
        ELSE IF n.tag # "None" THEN n
        ELSE IF b.tag # "None" THEN b
        ELSE IF z.tag # "None" THEN z
        ELSE lex_char(cs)

\* Value of lib.rs: no location, no Bool.
LibValue(kind, value) == [kind |-> kind, value |-> value]

\* The outcome of a parse function of lib.rs, with the tokens it leaves.
LibOk(v, rest) == [tag |-> "Ok", value |-> v, rest |-> rest]

LibErr(kind) == [tag |-> "Err", err |-> kind]

\* The scalar tokens that are values (lib.rs 68-71, 90-93, 128-131).
IsScalarToken(t) == t.type \in {"String", "Integer", "Float", "Null"}

ScalarValue(t) ==
    CASE t.type = "String" -> LibValue("String", t.v)
      [] t.type = "Integer" -> LibValue("Number", [num |-> "Integer", v |-> t.v])
      [] t.type = "Float" -> LibValue("Number", [num |-> "Float", v |-> t.v])
      [] t.type = "Null" -> LibValue("Null", <<>>)

RECURSIVE lib_parse_array(_, _), lib_parse_object(_, _), lib_array_sep(_, _), lib_object_sep(_, _)

\* parse_array (lib.rs 83-109): the loop, entered with the queue ts and the
\* array built so far.
lib_parse_array(ts, array) ==
    IF ts = <<>> THEN LibErr("Syntax")
    ELSE LET token == Head(ts)
             rest  == Tail(ts)
         IN  IF token.type = "RightBracket" THEN LibOk(LibValue("Array", array), rest)
             ELSE IF IsScalarToken(token)
             THEN lib_array_sep(rest, Append(array, ScalarValue(token)))
             ELSE IF token.type = "LeftBrace"
             THEN LET r == lib_parse_object(rest, EmptyMap)
                  IN  IF r.tag = "Err" THEN r
                      ELSE lib_array_sep(r.rest, Append(array, r.value))
             ELSE IF token.type = "LeftBracket"
             THEN LET r == lib_parse_array(rest, <<>>)
                  IN  IF r.tag = "Err" THEN r
                      ELSE lib_array_sep(r.rest, Append(array, r.value))
             ELSE LibErr("Syntax")

\* The separator after an element (lib.rs 99-105); with no token left the
\* loop ends and parse_array fails (lib.rs 108).
lib_array_sep(ts, array) ==
    IF ts = <<>> THEN lib_parse_array(ts, array)
    ELSE IF Head(ts).type = "Comma" THEN lib_parse_array(Tail(ts), array)
    ELSE IF Head(ts).type = "RightBracket" THEN LibOk(LibValue("Array", array), Tail(ts))
    ELSE LibErr("Syntax")

\* parse_object (lib.rs 111-149): the loop, entered with the queue ts and the
\* map built so far.
lib_parse_object(ts, hm) ==
    IF ts = <<>> THEN LibErr("Syntax")
    ELSE LET token == Head(ts)
             rest  == Tail(ts)
         IN  IF token.type = "RightBrace" THEN LibOk(LibValue("Object", hm), rest)
             ELSE IF token.type # "String" THEN LibErr("Syntax")
             ELSE IF rest = <<>> \/ Head(rest).type # "Colon" THEN LibErr("Syntax")
             ELSE LET after == Tail(rest)
                  IN  IF after = <<>> THEN LibErr("Syntax")
                      ELSE IF IsScalarToken(Head(after))
                      THEN lib_object_sep(Tail(after), Insert(hm, token.v, ScalarValue(Head(after))))
                      ELSE IF Head(after).type = "LeftBrace"
                      THEN LET r == lib_parse_object(Tail(after), EmptyMap)
                           IN  IF r.tag = "Err" THEN r
                               ELSE lib_object_sep(r.rest, Insert(hm, token.v, r.value))
                      ELSE IF Head(after).type = "LeftBracket"
                      THEN LET r == lib_parse_array(Tail(after), <<>>)
                           IN  IF r.tag = "Err" THEN r
                               ELSE lib_object_sep(r.rest, Insert(hm, token.v, r.value))
                      ELSE LibErr("Syntax")

\* The separator after a pair (lib.rs 139-145).
lib_object_sep(ts, hm) ==
    IF ts = <<>> THEN lib_parse_object(ts, hm)
    ELSE IF Head(ts).type = "Comma" THEN lib_parse_object(Tail(ts), hm)
    ELSE IF Head(ts).type = "RightBrace" THEN LibOk(LibValue("Object", hm), Tail(ts))
    ELSE LibErr("Syntax")

\* parse (lib.rs 60-81): Ok(None) on no token, else one root value and no
\* token left.
lib_parse(ts) ==
    IF ts = <<>> THEN [tag |-> "Ok", inner |-> [some |-> FALSE]]
    ELSE LET token == Head(ts)
             r     == IF token.type = "LeftBrace" THEN lib_parse_object(Tail(ts), EmptyMap)
                      ELSE IF token.type = "LeftBracket" THEN lib_parse_array(Tail(ts), <<>>)
                      ELSE IF IsScalarToken(token) THEN LibOk(ScalarValue(token), Tail(ts))
                      ELSE LibErr("Syntax")
         IN  IF r.tag = "Err" THEN r
             ELSE IF r.rest # <<>> THEN LibErr("Syntax")
             ELSE [tag |-> "Ok", inner |-> [some |-> TRUE, value |-> r.value]]

InitLib ==
    /\ chars \in Inputs
    /\ tokens = <<>>
    /\ lpc = "lex"
    /\ lresult = Running
    /\ bytes = <<>>
    /\ pos = 0
    /\ values = <<>>
    /\ stack = <<>>
    /\ pc = "idle"
    /\ result = Running

\* One turn of the loop of lex (lex.rs 29-71); a failure leaves from_json_str
\* with ParseError::Lex (lib.rs 51).
Lex ==
    /\ lpc = "lex"
    /\ chars # <<>>
    /\ LET r == lex_step(chars)
       IN  IF r.tag = "Err"
           THEN /\ lresult' = LibErr("Lex")
                /\ lpc' = "done"
                /\ UNCHANGED <<chars, tokens>>
           ELSE /\ chars' = r.rest
                /\ tokens' = IF r.tag = "Some" THEN Append(tokens, r.token) ELSE tokens
                /\ UNCHANGED <<lpc, lresult>>
    /\ UNCHANGED pvars

\* The end of lex (lex.rs 29, 73).
LexEnd ==
    /\ lpc = "lex"
    /\ chars = <<>>
    /\ lpc' = "parse"
    /\ UNCHANGED <<chars, tokens, lresult>>
    /\ UNCHANGED pvars

\* from_json_str after lex (lib.rs 54-57).
FromJsonStr ==
    /\ lpc = "parse"
    /\ lresult' = lib_parse(tokens)
    /\ lpc' = "done"
    /\ UNCHANGED <<chars, tokens>>
    /\ UNCHANGED pvars

NextLib ==
    \/ Lex
    \/ LexEnd
    \/ FromJsonStr

SpecLib == InitLib /\ [][NextLib]_vars

---------------------------------------------------------------------------
(* Vocabulary of the properties.                                           *)

\* The step hands exactly one value to the caller.
Delivers ==
    IF stack = <<>>
    THEN Len(values') = Len(values) + 1 /\ SubSeq(values', 1, Len(values)) = values
    ELSE /\ values' = values
         /\ Len(stack') = Len(stack)
         /\ IF Top.kind = "array"
            THEN Len(stack'[Len(stack)].array) = Len(Top.array) + 1
            ELSE Top.key \in DOMAIN stack'[Len(stack)].hm

\* The value the step hands to the caller, when it Delivers.
NewNode ==
    IF stack = <<>> THEN values'[Len(values')]
    ELSE IF Top.kind = "array"
         THEN stack'[Len(stack)].array[Len(stack'[Len(stack)].array)]
         ELSE stack'[Len(stack)].hm[Top.key]

\* The step fails the whole parse with error e.
FailsWith(e) == pc' = "done" /\ result' = [tag |-> "Err", err |-> e]

\* The first offset at or after p that holds no whitespace, or the length of
\* the buffer: where the parser stands once whitespace is skipped.
NonWs(p) ==
    LET stops == {q \in p..Len(bytes) :
                     q = Len(bytes) \/ Byte(q) \notin {" ", "\n", "\r", "\t"}}
    IN  CHOOSE q \in stops : \A r \in stops : q <= r

\* Only whitespace is left from offset p on.
Exhausted(p) == NonWs(p) = Len(bytes)

\* The bytes from offset i on start with word w.
StartsWith(i, w) == i + Len(w) <= Len(bytes) /\ SubSeq(bytes, i + 1, i + Len(w)) = w

---------------------------------------------------------------------------
\* C3: whenever parse_null or parse_bool runs and the bytes at the cursor are
\* not exactly null, true or false, the parse returns a Syntax error at the
\* start of the attempted literal and the cursor has not moved; also when
\* fewer bytes are left than the literal is long.
C3_MalformedLiteralIsSyntaxError ==
    [][ (/\ pc \in {"parse_null", "parse_bool"}
         /\ ~StartsWith(pos, <<"n", "u", "l", "l">>)
         /\ ~StartsWith(pos, <<"t", "r", "u", "e">>)
         /\ ~StartsWith(pos, <<"f", "a", "l", "s", "e">>))
        => (FailsWith(Syntax(pos)) /\ pos' = pos) ]_vars

---------------------------------------------------------------------------
\* C4: where parse_object expects a key (after the opening brace and after
\* each comma, whitespace skipped), a byte other than a double quote makes the
\* parse fail with a Syntax error.
C4_NonQuoteKeyIsSyntaxError ==
    [][ (pc = "parse_object_key" /\ Byte(pos) # "\"")
        => (pc' = "done" /\ result'.tag = "Err" /\ result'.err.kind = "Syntax") ]_vars

---------------------------------------------------------------------------
\* C5: in parse_array a comma followed, after optional whitespace, by the
\* closing bracket or by the end of the input makes the parse fail with a
\* Syntax error: at the end of the input at once, and at the bracket when
\* parse_bytes is run on it, whatever follows the bracket.
C5_ArrayTrailingCommaRejected ==
    [][ /\ (/\ pc = "parse_array_loop"
            /\ ~Exhausted(pos)
            /\ Byte(NonWs(pos)) = ","
            /\ Exhausted(NonWs(pos) + 1))
           => FailsWith(Syntax(Len(bytes)))
        /\ (/\ pc = "parse_array_loop"
            /\ ~Exhausted(pos)
            /\ Byte(NonWs(pos)) = ","
            /\ ~Exhausted(NonWs(pos) + 1)
            /\ Byte(NonWs(NonWs(pos) + 1)) = "]")
           => (/\ pc' = "parse_bytes"
               /\ pos' = NonWs(NonWs(pos) + 1)
               /\ stack' = stack
               /\ result' = Running)
        /\ (/\ pc = "parse_bytes"
            /\ stack # <<>>
            /\ Top.kind = "array"
            /\ Byte(pos) = "]")
           => FailsWith(Syntax(pos)) ]_vars

\* C5 witness: a parse that failed at a closing bracket that follows a comma
\* of an array with an element, with bytes left after the bracket.
C5_Witness ==
    /\ pc = "done"
    /\ result = [tag |-> "Err", err |-> Syntax(pos)]
    /\ stack # <<>>
    /\ Top.kind = "array"
    /\ Top.array # <<>>
    /\ pos + 1 < Len(bytes)
    /\ Byte(pos) = "]"
    /\ \E c \in 0..(pos - 1) : Byte(c) = "," /\ NonWs(c + 1) = pos

---------------------------------------------------------------------------
\* C6: in parse_object a comma followed, after optional whitespace, by the
\* closing brace or by the end of the input makes the parse fail with a
\* Syntax error, whatever follows the brace.
C6_ObjectTrailingCommaRejected ==
    [][ /\ (/\ pc = "parse_object_loop"
            /\ ~Exhausted(pos)
            /\ Byte(NonWs(pos)) = ","
            /\ Exhausted(NonWs(pos) + 1))
           => FailsWith(Syntax(Len(bytes)))
        /\ (/\ pc = "parse_object_loop"
            /\ ~Exhausted(pos)
            /\ Byte(NonWs(pos)) = ","
            /\ ~Exhausted(NonWs(pos) + 1)
            /\ Byte(NonWs(NonWs(pos) + 1)) = "}")
           => (/\ pc' = "parse_object_key"
               /\ pos' = NonWs(NonWs(pos) + 1)
               /\ stack' = stack
               /\ result' = Running)
        /\ (/\ pc = "parse_object_key"
            /\ Top.hm # EmptyMap
            /\ Byte(pos) = "}")
           => (pc' = "done" /\ result'.tag = "Err" /\ result'.err.kind = "Syntax") ]_vars

---------------------------------------------------------------------------
\* The end of the longest run of bytes of 0-9, '-', 'e', '.' that starts at p.
RunEnd(p) ==
    LET set   == {"0", "1", "2", "3", "4", "5", "6", "7", "8", "9", "-", "e", "."}
        stops == {q \in p..Len(bytes) : q = Len(bytes) \/ Byte(q) \notin set}
    IN  CHOOSE q \in stops : \A r \in stops : q <= r

\* C7: parse_number takes the longest run of bytes of 0-9, '-', 'e', '.' at the
\* cursor.  A run that parses as an i64 gives an Integer node; any other run
\* that parses as an f64 (every run of digits beyond the i64 range does) gives
\* a Float node; any other run fails with a Number error at the start of the
\* run, the cursor not moved.  On success the node spans the run and the
\* cursor has advanced by its length.
C7_NumberScanAndDispatch ==
    [][ pc = "parse_number" =>
          LET e   == RunEnd(pos)
              run == SubSeq(bytes, pos + 1, e)
          IN  /\ (AllDigits(run) /\ run # <<>>) => (ParseI64(run).ok \/ ParseF64(run).ok)
              /\ IF ParseI64(run).ok \/ ParseF64(run).ok
                 THEN /\ result' = Running
                      /\ pos' = e
                      /\ Delivers
                      /\ NewNode.kind = "Number"
                      /\ NewNode.value.num = (IF ParseI64(run).ok THEN "Integer" ELSE "Float")
                      /\ NewNode.loc = <<pos, e>>
                 ELSE FailsWith(Number(pos)) /\ pos' = pos ]_vars

\* C7 witness: a Number error on a run the scan took whole (such as 1-2), the
\* cursor still at its start.
C7_Witness ==
    /\ pc = "done"
    /\ result = [tag |-> "Err", err |-> Number(pos)]
    /\ RunEnd(pos) >= pos + 3
    /\ Byte(pos) \in Digits

---------------------------------------------------------------------------
\* The offset of the quote that closes the string opened at offset i, or the
\* length of the buffer.
ClosingQuote(i) ==
    LET stops == {q \in (i + 1)..Len(bytes) : q = Len(bytes) \/ Byte(q) = "\""}
    IN  CHOOSE q \in stops : \A r \in stops : q <= r

\* C8: inside an open array or object, when only whitespace is left where a
\* value, a colon, a comma or a closing bracket or brace is expected, the
\* parse fails with a Syntax error whose position is the length of the
\* buffer.
C8_ExhaustionInsideContainer ==
    [][ /\ \* after the opening bracket or brace
           (pc \in {"parse_array", "parse_object"} /\ Exhausted(pos + 1))
           => FailsWith(Syntax(Len(bytes)))
        /\ \* after a value: a comma or the closing byte is expected
           (pc \in {"parse_array_loop", "parse_object_loop"} /\ Exhausted(pos))
           => FailsWith(Syntax(Len(bytes)))
        /\ \* after a comma: a value or a key is expected
           (/\ pc \in {"parse_array_loop", "parse_object_loop"}
            /\ ~Exhausted(pos)
            /\ Byte(NonWs(pos)) = ","
            /\ Exhausted(NonWs(pos) + 1))
           => FailsWith(Syntax(Len(bytes)))
        /\ \* after a key: a colon is expected
           (/\ pc = "parse_object_key"
            /\ Byte(pos) = "\""
            /\ ClosingQuote(pos) < Len(bytes)
            /\ Exhausted(ClosingQuote(pos) + 1))
           => FailsWith(Syntax(Len(bytes)))
        /\ \* after a colon: a value is expected
           (/\ pc = "parse_object_key"
            /\ Byte(pos) = "\""
            /\ ClosingQuote(pos) < Len(bytes)
            /\ ~Exhausted(ClosingQuote(pos) + 1)
            /\ Byte(NonWs(ClosingQuote(pos) + 1)) = ":"
            /\ Exhausted(NonWs(ClosingQuote(pos) + 1) + 1))
           => FailsWith(Syntax(Len(bytes)))
        /\ \* at parse_bytes itself
           (pc = "parse_bytes" /\ stack # <<>> /\ Exhausted(pos))
           => FailsWith(Syntax(Len(bytes))) ]_vars

\* C8 witness: a parse that failed at the end of the buffer, past trailing
\* whitespace, inside an array that holds a value.
C8_Witness ==
    /\ pc = "done"
    /\ result = [tag |-> "Err", err |-> Syntax(Len(bytes))]
    /\ stack # <<>>
    /\ Top.kind = "array"
    /\ Top.array # <<>>
    /\ Byte(Len(bytes) - 1) = " "

---------------------------------------------------------------------------
\* C9: the first failure aborts the whole parse.  A parse that has returned
\* takes no further step; an Err result carries the failing call's kind and
\* the cursor at which it failed and holds nothing else (no value completed
\* before the failure); Ok is returned only by the loop of parse, with the
\* buffer used up and every completed value, and buffer exhaustion in the
\* top-level whitespace skip is the one error that ends in Ok.
C9_FirstFailureAborts ==
    [][ /\ result = Running
        /\ (result' # Running) => pc' = "done"
        /\ (result'.tag = "Err")
           => (/\ DOMAIN result' = {"tag", "err"}
               /\ result'.err.position = pos'
               /\ result'.err.kind = (IF pc = "parse_number" THEN "Number" ELSE "Syntax")
               /\ pc # "parse"
               /\ values' = values)
        /\ (result'.tag = "Ok")
           => (/\ pc = "parse"
               /\ stack = <<>>
               /\ Exhausted(pos)
               /\ pos' = Len(bytes)
               /\ result' = [tag |-> "Ok", json |-> values])
        /\ (pc = "parse" /\ Exhausted(pos)) => result'.tag = "Ok" ]_vars

\* C9 witness: a failed parse that had completed a top-level value.
C9_Witness ==
    /\ pc = "done"
    /\ result.tag = "Err"
    /\ values # <<>>
    /\ stack # <<>>

---------------------------------------------------------------------------
(* The JSON grammar of RFC 8259, without backslash escapes, read off the   *)
(* buffer: what the properties about well-formed texts call well-formed.   *)
(* A value is recognised at an offset and gives its end and its shape (its *)
(* kind and, for a container, the shapes of its children).  A number is    *)
(* well-formed only when the byte after it cannot continue a number, so    *)
(* that a text has one reading.                                            *)

RefFail == [ok |-> FALSE]

RefOk(e, sh) == [ok |-> TRUE, end |-> e, shape |-> sh]

Shape(kind, kids) == [kind |-> kind, kids |-> kids]

RefDigitsEnd(i) ==
    IF i >= Len(bytes) THEN i
    ELSE LET stops == {q \in i..Len(bytes) : q = Len(bytes) \/ Byte(q) \notin Digits}
         IN  CHOOSE q \in stops : \A r \in stops : q <= r

\* number = [ minus ] int [ frac ] [ exp ]
RefNumber(i) ==
    LET n         == Len(bytes)
        a         == IF Byte(i) = "-" THEN i + 1 ELSE i
        intOk     == a < n /\ Byte(a) \in Digits
        b         == IF ~intOk THEN a ELSE IF Byte(a) = "0" THEN a + 1 ELSE RefDigitsEnd(a)
        hasFrac   == b < n /\ Byte(b) = "."
        c         == IF hasFrac THEN RefDigitsEnd(b + 1) ELSE b
        fracOk    == ~hasFrac \/ c > b + 1
        hasExp    == c < n /\ Byte(c) \in {"e", "E"}
        d0        == IF hasExp /\ c + 1 < n /\ Byte(c + 1) \in {"+", "-"} THEN c + 2 ELSE c + 1
        d         == IF hasExp THEN RefDigitsEnd(d0) ELSE c
        expOk     == ~hasExp \/ d > d0
        delimited == d >= n \/ Byte(d) \notin (Digits \cup {".", "e", "E", "+", "-"})
    IN  IF intOk /\ fracOk /\ expOk /\ delimited
        THEN RefOk(d, Shape("Number", <<>>))
        ELSE RefFail

\* string = quotation-mark *unescaped quotation-mark
RefString(i) ==
    LET q == ClosingQuote(i)
    IN  IF q < Len(bytes) /\ \A k \in (i + 1)..(q - 1) : Byte(k) # "\\"
        THEN RefOk(q + 1, Shape("String", <<>>))
        ELSE RefFail

RefLiteral(i, word, kind) ==
    IF StartsWith(i, word) THEN RefOk(i + Len(word), Shape(kind, <<>>)) ELSE RefFail

RefPut(m, key, sh) == [k \in (DOMAIN m) \cup {key} |-> IF k = key THEN sh ELSE m[k]]

RECURSIVE RefValue(_), RefElements(_, _), RefMembers(_, _)

\* value, at an offset that holds no whitespace
RefValue(i) ==
    IF i >= Len(bytes) THEN RefFail
    ELSE CASE Byte(i) = "n" -> RefLiteral(i, <<"n", "u", "l", "l">>, "Null")
           [] Byte(i) = "t" -> RefLiteral(i, <<"t", "r", "u", "e">>, "Bool")
           [] Byte(i) = "f" -> RefLiteral(i, <<"f", "a", "l", "s", "e">>, "Bool")
           [] Byte(i) = "\"" -> RefString(i)
           [] Byte(i) = "-" \/ Byte(i) \in Digits -> RefNumber(i)
           [] Byte(i) = "[" ->
                LET j == NonWs(i + 1)
                IN  IF j < Len(bytes) /\ Byte(j) = "]"
                    THEN RefOk(j + 1, Shape("Array", <<>>))
                    ELSE RefElements(j, <<>>)
           [] Byte(i) = "{" ->
                LET j == NonWs(i + 1)
                IN  IF j < Len(bytes) /\ Byte(j) = "}"
                    THEN RefOk(j + 1, Shape("Object", [k \in {} |-> <<>>]))
                    ELSE RefMembers(j, [k \in {} |-> <<>>])
           [] OTHER -> RefFail

\* value *( value-separator value ) end-array
RefElements(i, acc) ==
    LET v == RefValue(i)
    IN  IF ~v.ok THEN RefFail
        ELSE LET j == NonWs(v.end)
             IN  IF j >= Len(bytes) THEN RefFail
                 ELSE IF Byte(j) = "]" THEN RefOk(j + 1, Shape("Array", Append(acc, v.shape)))
                 ELSE IF Byte(j) = "," THEN RefElements(NonWs(j + 1), Append(acc, v.shape))
                 ELSE RefFail

\* member *( value-separator member ) end-object; member = string name-separator value
RefMembers(i, acc) ==
    IF i >= Len(bytes) \/ Byte(i) # "\"" THEN RefFail
    ELSE LET k == RefString(i)
         IN  IF ~k.ok THEN RefFail
             ELSE LET c == NonWs(k.end)
                  IN  IF c >= Len(bytes) \/ Byte(c) # ":" THEN RefFail
                      ELSE LET v == RefValue(NonWs(c + 1))
                           IN  IF ~v.ok THEN RefFail
                               ELSE LET j   == NonWs(v.end)
                                        key == SubSeq(bytes, i + 2, k.end - 1)
                                        m   == RefPut(acc, key, v.shape)
                                    IN  IF j >= Len(bytes) THEN RefFail
                                        ELSE IF Byte(j) = "}" THEN RefOk(j + 1, Shape("Object", m))
                                        ELSE IF Byte(j) = "," THEN RefMembers(NonWs(j + 1), m)
                                        ELSE RefFail

\* JSON-text = ws value ws
RefText ==
    LET v == RefValue(NonWs(0))
    IN  IF v.ok /\ Exhausted(v.end) THEN v ELSE RefFail

\* Well-formed values, with optional whitespace before, between and after.
RECURSIVE RefValues(_, _)
RefValues(i, acc) ==
    LET j == NonWs(i)
    IN  IF j >= Len(bytes) THEN [ok |-> TRUE, shapes |-> acc]
        ELSE LET v == RefValue(j)
             IN  IF v.ok THEN RefValues(v.end, Append(acc, v.shape)) ELSE RefFail

\* The shape of a node of the parser.
RECURSIVE ShapeOf(_)
ShapeOf(n) ==
    IF n.kind = "Array"
    THEN Shape("Array", [i \in 1..Len(n.value) |-> ShapeOf(n.value[i])])
    ELSE IF n.kind = "Object"
    THEN Shape("Object", [k \in DOMAIN n.value |-> ShapeOf(n.value[k])])
    ELSE Shape(n.kind, <<>>)

---------------------------------------------------------------------------
\* C1: an input made of k >= 0 well-formed values, with optional whitespace
\* before, between and after them, is parsed to Ok with exactly k top-level
\* nodes, in source order (the i-th node has the shape of the i-th value and
\* lies before the next one); the empty and the whitespace-only input give
\* Ok with no node.
C1_ValuesGiveThatManyNodes ==
    (pc = "done" /\ RefValues(0, <<>>).ok)
    => (/\ result.tag = "Ok"
        /\ Len(result.json) = Len(RefValues(0, <<>>).shapes)
        /\ \A i \in 1..Len(result.json) :
              ShapeOf(result.json[i]) = RefValues(0, <<>>).shapes[i]
        /\ \A i \in 1..(Len(result.json) - 1) :
              result.json[i].loc[2] <= result.json[i + 1].loc[1])

---------------------------------------------------------------------------
\* C2: every well-formed JSON text without a backslash escape, whatever legal
\* number forms it holds, is parsed to Ok with exactly one top-level node,
\* whose kind and nesting are those of the text.
C2_WellFormedTextGivesOneNode ==
    (pc = "done" /\ RefText.ok)
    => (/\ result.tag = "Ok"
        /\ Len(result.json) = 1
        /\ ShapeOf(result.json[1]) = RefText.shape)

---------------------------------------------------------------------------
\* C10: from_json_str of lib.rs (lex, then parse over the token queue) returns
\* an error for every input whose tokens hold a Comma directly followed by a
\* closing RightBracket or RightBrace.
C10_LibTrailingCommaRejected ==
    (/\ lpc = "done"
     /\ \E i \in 1..(Len(tokens) - 1) :
           /\ tokens[i].type = "Comma"
           /\ tokens[i + 1].type \in {"RightBracket", "RightBrace"})
    => lresult.tag = "Err"

---------------------------------------------------------------------------
\* The characters not yet consumed start with word w.
CharsStartWith(w) == Len(chars) >= Len(w) /\ SubSeq(chars, 1, Len(w)) = w

\* The characters not yet consumed, without their first n.
CharsAfter(n) == SubSeq(chars, n + 1, Len(chars))

\* C11: whenever lex stands at a token boundary where the characters left
\* start with true, false or null, its next turn emits Bool(true),
\* Bool(false) or Null and consumes the literal, whether more characters
\* follow the literal or it ends the input; tokens are only ever appended, in
\* source order, and a whitespace character is consumed with no token.
C11_LexEmitsLiterals ==
    [][ lpc = "lex" =>
          /\ CharsStartWith(<<"t", "r", "u", "e">>)
             => (/\ tokens' = Append(tokens, [type |-> "Bool", v |-> TRUE])
                 /\ chars' = CharsAfter(4)
                 /\ lresult' = Running)
          /\ CharsStartWith(<<"f", "a", "l", "s", "e">>)
             => (/\ tokens' = Append(tokens, [type |-> "Bool", v |-> FALSE])
                 /\ chars' = CharsAfter(5)
                 /\ lresult' = Running)
          /\ CharsStartWith(<<"n", "u", "l", "l">>)
             => (/\ tokens' = Append(tokens, [type |-> "Null"])
                 /\ chars' = CharsAfter(4)
                 /\ lresult' = Running)
          /\ (chars # <<>> /\ Head(chars) \in {" ", "\t", "\n", "\r"})
             => (tokens' = tokens /\ chars' = Tail(chars) /\ lresult' = Running)
          /\ \/ tokens' = tokens
             \/ Len(tokens') = Len(tokens) + 1 /\ SubSeq(tokens', 1, Len(tokens)) = tokens ]_vars

---------------------------------------------------------------------------
\* The child nodes of a node: the elements of an array, the values of an
\* object.
Children(n) ==
    IF n.kind = "Array" THEN {n.value[i] : i \in 1..Len(n.value)}
    ELSE IF n.kind = "Object" THEN {n.value[k] : k \in DOMAIN n.value}
    ELSE {}

\* The span of node n starts at its first byte and ends after its last one.
SpanEnds(n) ==
    LET s == n.loc[1]
        e == n.loc[2]
    IN  /\ 0 <= s /\ s < e /\ e <= Len(bytes)
        /\ CASE n.kind = "String" -> e - s >= 2 /\ Byte(s) = "\"" /\ Byte(e - 1) = "\""
             [] n.kind = "Array"  -> e - s >= 2 /\ Byte(s) = "[" /\ Byte(e - 1) = "]"
             [] n.kind = "Object" -> e - s >= 2 /\ Byte(s) = "{" /\ Byte(e - 1) = "}"
             [] n.kind = "Number" ->
                   /\ Byte(s) \in {"-", "0", "1", "2", "3", "4", "5", "6", "7", "8", "9"}
                   /\ \A k \in s..(e - 1) :
                         Byte(k) \notin {" ", "\n", "\r", "\t", ",", ":", "]", "}"}
             [] n.kind = "Null"   -> SubSeq(bytes, s + 1, e) = <<"n", "u", "l", "l">>
             [] n.kind = "Bool"   ->
                   SubSeq(bytes, s + 1, e)
                     = (IF n.value THEN <<"t", "r", "u", "e">> ELSE <<"f", "a", "l", "s", "e">>)

\* The spans of the nodes of sequence ns are disjoint and increasing.
Increasing(ns) == \A i \in 1..(Len(ns) - 1) : ns[i].loc[2] <= ns[i + 1].loc[1]

\* SpanEnds for node n and every node below it, each child strictly inside
\* its parent, the elements of each array disjoint and increasing.
RECURSIVE SpanTree(_)
SpanTree(n) ==
    /\ SpanEnds(n)
    /\ \A c \in Children(n) :
          /\ n.loc[1] < c.loc[1]
          /\ c.loc[2] < n.loc[2]
          /\ SpanTree(c)
    /\ n.kind = "Array" => Increasing(n.value)

\* C12: in every document returned Ok, each node's span [start, end) lies in
\* the buffer with start < end, starts at the node's first byte and ends
\* after its last byte (so holds no whitespace or separator around the node),
\* each child's span is strictly inside its parent's, the elements of an array
\* are disjoint and increasing, and so are the top-level nodes.
C12_SpansCoverNodes ==
    (pc = "done" /\ result.tag = "Ok")
    => (/\ \A i \in 1..Len(result.json) : SpanTree(result.json[i])
        /\ Increasing(result.json))

\* C12 witness: a document returned Ok whose first node is a container that
\* holds a string with whitespace before the string and after it.
C12_Witness ==
    /\ pc = "done"
    /\ result.tag = "Ok"
    /\ result.json # <<>>
    /\ \E c \in Children(result.json[1]) :
          /\ c.kind = "String"
          /\ Byte(c.loc[1] - 1) = " "
          /\ Byte(c.loc[2]) = " "

---------------------------------------------------------------------------
\* C13: an error carries the offset at which the failing construct starts,
\* before any partial advance: a scalar production that fails reports the
\* cursor it was entered with, and a string with no closing quote before the
\* end of the buffer, as a value or as a key, fails with a Syntax error at
\* the offset of its opening quote.
C13_ErrorAtConstructStart ==
    [][ /\ (/\ pc \in {"parse_null", "parse_bool", "parse_number", "parse_string"}
            /\ result'.tag = "Err")
           => result'.err.position = pos
        /\ (pc = "parse_string" /\ ClosingQuote(pos) = Len(bytes))
           => FailsWith(Syntax(pos))
        /\ (pc = "parse_object_key" /\ Byte(pos) = "\"" /\ ClosingQuote(pos) = Len(bytes))
           => FailsWith(Syntax(pos)) ]_vars

---------------------------------------------------------------------------
\* The node the step has handed to the call that is innermost after it: the
\* last top-level node, the last element of the open array, or the value
\* under the pending key of the open object.
Handed ==
    LET d == Len(stack')
    IN  IF d = 0 THEN values'[Len(values')]
        ELSE IF stack'[d].kind = "array" THEN stack'[d].array[Len(stack'[d].array)]
        ELSE stack'[d].hm[stack'[d].key]

\* C14: each value parsed for a key of an object is stored without error,
\* whether or not the key was already in the map: the map gains the key if it
\* is new and keeps one entry per key, the entries of the other keys are kept,
\* and the entry of the key is the node just parsed (the one that ends at the
\* cursor), which lies after the node it replaces; the object node returned
\* at the closing brace holds this map.
C14_DuplicateKeyLastWins ==
    [][ /\ pc' = "parse_object_loop"
           => LET d     == Len(stack')
                  k     == stack[d].key
                  hmOld == stack[d].hm
                  hmNew == stack'[d].hm
              IN  /\ result' = Running
                  /\ stack'[d].key = k
                  /\ DOMAIN hmNew = (DOMAIN hmOld) \cup {k}
                  /\ \A j \in (DOMAIN hmOld) \ {k} : hmNew[j] = hmOld[j]
                  /\ hmNew[k].loc[2] = pos'
                  /\ k \in DOMAIN hmOld => hmOld[k].loc[2] < hmNew[k].loc[1]
        /\ (pc = "parse_object_loop" /\ Len(stack') < Len(stack))
           => (Handed.kind = "Object" /\ Handed.value = Top.hm) ]_vars

\* C14 witness: a document returned Ok whose first node is an object that
\* holds the one key a, its value parsed from a second pair of the text.
C14_Witness ==
    /\ pc = "done"
    /\ result.tag = "Ok"
    /\ result.json # <<>>
    /\ result.json[1].kind = "Object"
    /\ DOMAIN result.json[1].value = {<<"a">>}
    /\ SubSeq(bytes, 1, 7) = <<"{", "\"", "a", "\"", ":", "1", ",">>
    /\ result.json[1].value[<<"a">>].loc[1] > 7

---------------------------------------------------------------------------
\* C15: throughout a parse the cursor stays within 0..length of the buffer
\* and never decreases; every step that hands a parsed value to its caller
\* (top-level or nested) has moved the cursor forward, to the end of that
\* value's span, and the span holds at least one byte; a step that pushes a
\* top-level value therefore leaves the cursor strictly beyond where the step
\* and the previous top-level value ended; and every parse comes to its end.
C15_CursorBoundedMonotoneTerminates ==
    /\ [](0 <= pos /\ pos <= Len(bytes))
    /\ [][ /\ pos <= pos'
           /\ pc' \in {"parse", "parse_array_loop", "parse_object_loop"}
              => (/\ pos < pos'
                  /\ Handed.loc[1] < Handed.loc[2]
                  /\ Handed.loc[2] = pos')
           /\ Len(values') # Len(values)
              => (/\ Len(values') = Len(values) + 1
                  /\ pos < pos'
                  /\ values # <<>> => values[Len(values)].loc[2] <= values'[Len(values')].loc[1]
                  /\ values'[Len(values')].loc[2] = pos') ]_vars
    /\ <>(pc = "done")

\* C15 witness: a finished parse that pushed two top-level values, the second
\* one a container with a value inside, the cursor at the end of the buffer.
C15_Witness ==
    /\ pc = "done"
    /\ result.tag = "Ok"
    /\ Len(values) >= 2
    /\ values[2].kind \in {"Array", "Object"}
    /\ values[2].value # <<>>
    /\ pos = Len(bytes)

===========================================================================
